---- MODULE Spec2Model ----
(***************************************************************************)
(* Model of the MOS 6502 core of nes-rs: src/cpu_6502.rs (registers,       *)
(* stack, addressing-mode decoders, opcodes) and src/cpu_bus.rs (the RAM   *)
(* behind the bus).                                                        *)
(*                                                                         *)
(* Every function of the source is an operator over a machine record       *)
(* (the MOS6502 fields, the Bus ram, and what the call produced); every    *)
(* action applies one function to the current state.  Rust's integer       *)
(* arithmetic keeps its width: `+` and `+=` on u16 panic when the build    *)
(* has overflow checks (debug profile) and wrap when it has not (release   *)
(* profile), `wrapping_add` always wraps, indexing the ram array past its  *)
(* length always panics.                                                   *)
(***************************************************************************)
EXTENDS Integers, Sequences, FiniteSets, TLC

VARIABLES
    a,               \* MOS6502.a        Accumulator
    x,               \* MOS6502.x        X Register
    y,               \* MOS6502.y        Y Register
    s,               \* MOS6502.s        Status Register
    pc,              \* MOS6502.pc       Program Counter (u16)
    sp,              \* MOS6502.sp       Stack Pointer (i16)
    clk,             \* MOS6502.clk      Additional Clock Cycles
    acc_addr,        \* MOS6502.acc_addr Accumulator addressing latch
    ram,             \* Bus.ram, as the map of its non-zero cells
    overflow_checks, \* build profile: TRUE = debug (overflow panics)
    panicked,        \* the thread has panicked (the program is over)
    fuel,            \* calls the driver still makes
    call,            \* the last call: [op, mode, arg, at]
    pre,             \* the machine record the last call started from
    prev,            \* the stack call made just before the last call, if any
    out              \* what the last call produced: [ok, ret, addr, cycle, trace]

vars == <<a, x, y, s, pc, sp, clk, acc_addr, ram, overflow_checks, panicked,
          fuel, call, pre, prev, out>>

---------------------------------------------------------------------------
(* Bounds of the model *)

\* number of calls in a run that starts from MOS6502::new()
MaxSteps == 2

---------------------------------------------------------------------------
(* Bit operations on unsigned integers, as the source's & | ^ ! *)

RECURSIVE BitAnd(_, _)
BitAnd(m, n) ==
    IF m = 0 \/ n = 0 THEN 0
    ELSE (m % 2) * (n % 2) + 2 * BitAnd(m \div 2, n \div 2)

RECURSIVE BitOr(_, _)
BitOr(m, n) ==
    IF m = 0 THEN n
    ELSE IF n = 0 THEN m
    ELSE (IF m % 2 = 1 \/ n % 2 = 1 THEN 1 ELSE 0) + 2 * BitOr(m \div 2, n \div 2)

RECURSIVE BitXor(_, _)
BitXor(m, n) ==
    IF m = 0 THEN n
    ELSE IF n = 0 THEN m
    ELSE ((m + n) % 2) + 2 * BitXor(m \div 2, n \div 2)

\* !v on a u8 and on a u16
Not8(v) == 255 - v
Not16(v) == 65535 - v

\* v as u8, and the wrap of a u16 sum
AsU8(v) == v % 256
Wrap16(v) == v % 65536

---------------------------------------------------------------------------
(* enum Flags *)

Carry == 1
Zero == 2
Interrupt == 4
Decimal == 8
Break == 16
Overflow == 64
Negative == 128

---------------------------------------------------------------------------
(* The bus: Bus.ram is [u8; 0xFFFF], all zero after Bus::new() *)

RamLen == 65535

EmptyRam == [c \in {} |-> 0]

RamAt(r, addr) == IF addr \in DOMAIN r THEN r[addr] ELSE 0

RamPut(r, addr, byte) ==
    IF byte = 0
    THEN [c \in (DOMAIN r) \ {addr} |-> r[c]]
    ELSE [c \in (DOMAIN r) \cup {addr} |-> IF c = addr THEN byte ELSE r[c]]

\* a step of a function body: nothing more happens once the thread panicked
Upd(m, new) == IF m.panic THEN m ELSE new

Panic(m) == Upd(m, [m EXCEPT !.panic = TRUE])

\* an arithmetic operation of the source that overflows its type when ovf
Chk(m, ovf) == IF ovf /\ m.oc THEN Panic(m) ELSE m

\* Bus::read: the byte is left in m.val
BusRead(m, addr) ==
    Upd(m, IF addr >= RamLen
           THEN [m EXCEPT !.trace = Append(@, <<"r", addr>>), !.panic = TRUE]
           ELSE [m EXCEPT !.trace = Append(@, <<"r", addr>>),
                          !.val = RamAt(m.ram, addr)])

\* Bus::write
BusWrite(m, addr, byte) ==
    Upd(m, IF addr >= RamLen
           THEN [m EXCEPT !.trace = Append(@, <<"w", addr>>), !.panic = TRUE]
           ELSE [m EXCEPT !.trace = Append(@, <<"w", addr>>),
                          !.ram = RamPut(m.ram, addr, byte)])

---------------------------------------------------------------------------
(* MOS6502 helpers.  A function body is the composition of its statements, *)
(* each a step n |-> n' on the machine record; the locals of the body      *)
(* (byte, byte_lo, byte_hi, res, old_pc) are fields of the record.         *)

\* self.pc += 1
IncPC(m) ==
    IF m.pc + 1 > 65535 /\ m.oc THEN Panic(m)
    ELSE Upd(m, [m EXCEPT !.pc = Wrap16(m.pc + 1)])

\* set_flag clearing with `&= flag` (the ! forgotten)
set_flag_ClearWithoutNot(m, flag, val) ==
    Upd(m, [m EXCEPT !.s = IF val THEN BitOr(m.s, flag)
                           ELSE BitAnd(m.s, flag)])

set_flag(m, flag, val) ==
    Upd(m, [m EXCEPT !.s = IF val THEN BitOr(m.s, flag)
                           ELSE BitAnd(m.s, Not8(flag))])

get_flag(m, flag) == BitAnd(m.s, flag) > 0

\* AddrRes::new(addr, cycle)
AddrRes(m, addr, cycle) == Upd(m, [m EXCEPT !.addr = addr, !.cycle = cycle])

\* the value a function returns: Ok(v) / a plain v, or Err(..)
Return(m, ok, v) == Upd(m, [m EXCEPT !.ok = ok, !.ret = v])

\* stack_push with the bound test off by one (sp <= 0xFF)
stack_push_OffByOne(m, byte) ==
    LET f1(n) == [n EXCEPT !.sp = n.sp + 1]
        f2(n) == BusWrite(n, n.sp + 256, byte)
    IN  IF m.sp <= 255
        THEN Return(f2(f1(m)), TRUE, 0)
        ELSE Return(m, FALSE, 0)

stack_push(m, byte) ==
    LET f1(n) == [n EXCEPT !.sp = n.sp + 1]
        f2(n) == BusWrite(n, n.sp + 256, byte)
    IN  IF m.sp < 255
        THEN Return(f2(f1(m)), TRUE, 0)
        ELSE Return(m, FALSE, 0)

\* stack_pop reading the top of the stack before the underflow test
stack_pop_ReadFirst(m) ==
    LET f1(n) == BusRead(n, (n.sp + 256) % 65536)
        f2(n) == Upd(n, [n EXCEPT !.byte = n.val, !.sp = n.sp - 1])
        f3(n) == Return(n, TRUE, n.byte)
    IN  IF m.sp > -1
        THEN f3(f2(f1(m)))
        ELSE Return(f1(m), FALSE, 0)

stack_pop(m) ==
    LET f1(n) == BusRead(n, n.sp + 256)
        f2(n) == Upd(n, [n EXCEPT !.byte = n.val, !.sp = n.sp - 1])
        f3(n) == Return(n, TRUE, n.byte)
    IN  IF m.sp > -1
        THEN f3(f2(f1(m)))
        ELSE Return(m, FALSE, 0)

read_opcode(m) ==
    LET f1(n) == BusRead(n, n.pc)
        f2(n) == IncPC(n)
        f3(n) == Return(n, TRUE, n.val)
    IN  f3(f2(f1(m)))

tick(m) == m

---------------------------------------------------------------------------
(* Addressing modes: each leaves its AddrRes in m.addr, m.cycle *)

addr_implied(m) == Panic(m)

addr_acc(m) ==
    LET f1(n) == [n EXCEPT !.acc_addr = TRUE]
        f2(n) == AddrRes(n, n.a, FALSE)
    IN  f2(f1(m))

\* addr_immediate returning the pc after the increment
addr_immediate_PostIncrement(m) ==
    LET f1(n) == IncPC(n)
        f2(n) == AddrRes(n, n.pc, FALSE)
    IN  f2(f1(m))

addr_immediate(m) ==
    LET f1(n) == [n EXCEPT !.byte = n.pc]
        f2(n) == IncPC(n)
        f3(n) == AddrRes(n, n.byte, FALSE)
    IN  f3(f2(f1(m)))

addr_relative(m) ==
    LET f1(n) == BusRead(n, n.pc)
        f2(n) == Upd(n, [n EXCEPT !.byte = n.val])
        f3(n) == IncPC(n)
        f4(n) == IF BitAnd(n.byte, 128) > 1
                 THEN Upd(n, [n EXCEPT !.byte = BitOr(n.byte, 65280)])
                 ELSE n
        f5(n) == Chk(n, n.pc + n.byte > 65535)
        f6(n) == AddrRes(n, n.byte,
                         BitAnd(Wrap16(n.pc + n.byte), 65280) > BitAnd(n.pc, 65280))
    IN  f6(f5(f4(f3(f2(f1(m))))))

addr_zero_pg(m) ==
    LET f1(n) == BusRead(n, n.pc)
        f2(n) == IncPC(n)
        f3(n) == AddrRes(n, n.val, FALSE)
    IN  f3(f2(f1(m)))

\* the two reads that open Absolute, Absolute,X and Absolute,Y
ReadLoHi(m) ==
    LET f1(n) == BusRead(n, n.pc)
        f2(n) == Upd(n, [n EXCEPT !.byte_lo = n.val])
        f3(n) == IncPC(n)
        f4(n) == BusRead(n, n.pc)
        f5(n) == Upd(n, [n EXCEPT !.byte_hi = n.val])
        f6(n) == IncPC(n)
    IN  f6(f5(f4(f3(f2(f1(m))))))

addr_absolute(m) ==
    LET f7(n) == AddrRes(n, BitOr(n.byte_hi * 256, n.byte_lo), FALSE)
    IN  f7(ReadLoHi(m))

addr_indirect(m) ==
    LET f1(n) == BusRead(n, n.pc)
        \* addr_hi is the first operand byte, addr_lo the second
        f2(n) == Upd(n, [n EXCEPT !.byte_hi = n.val])
        f3(n) == IncPC(n)
        f4(n) == BusRead(n, n.pc)
        f5(n) == Upd(n, [n EXCEPT !.byte_lo = n.val])
        f6(n) == IncPC(n)
        f7(n) == Upd(n, [n EXCEPT !.byte = BitOr(n.byte_hi * 256, n.byte_lo)])
        \* addr_2: the high byte is read first, then the low byte
        f8(n) == IF n.byte_lo = 255
                 THEN BusRead(n, BitAnd(n.byte, 65280))
                 ELSE BusRead(Chk(n, n.byte + 1 > 65535), Wrap16(n.byte + 1))
        f9(n) == Upd(n, [n EXCEPT !.res = n.val * 256])
        f10(n) == BusRead(n, n.byte)
        f11(n) == AddrRes(n, BitOr(n.res, n.val), FALSE)
    IN  f11(f10(f9(f8(f7(f6(f5(f4(f3(f2(f1(m)))))))))))

\* addr_zero_pg_x adding X after the widening to u16
addr_zero_pg_x_NoWrap(m) ==
    LET f1(n) == BusRead(n, n.pc)
        f2(n) == Upd(n, [n EXCEPT !.byte = n.val + n.x])
        f3(n) == IncPC(n)
        f4(n) == AddrRes(n, n.byte, FALSE)
    IN  f4(f3(f2(f1(m))))

addr_zero_pg_x(m) ==
    LET f1(n) == BusRead(n, n.pc)
        f2(n) == Upd(n, [n EXCEPT !.byte = AsU8(n.val + n.x)])
        f3(n) == IncPC(n)
        f4(n) == AddrRes(n, n.byte, FALSE)
    IN  f4(f3(f2(f1(m))))

addr_zero_pg_y(m) ==
    LET f1(n) == BusRead(n, n.pc)
        f2(n) == Upd(n, [n EXCEPT !.byte = AsU8(n.val + n.y)])
        f3(n) == IncPC(n)
        f4(n) == AddrRes(n, n.byte, FALSE)
    IN  f4(f3(f2(f1(m))))

addr_absolute_x(m) ==
    LET f7(n) == Upd(n, [n EXCEPT !.byte =
                            Wrap16(BitOr(n.byte_hi * 256, n.byte_lo) + n.x)])
        f8(n) == AddrRes(n, n.byte, BitAnd(n.byte, 65280) # n.byte_hi * 256)
    IN  f8(f7(ReadLoHi(m)))

addr_absolute_y(m) ==
    LET f7(n) == Upd(n, [n EXCEPT !.byte =
                            Wrap16(BitOr(n.byte_hi * 256, n.byte_lo) + n.y)])
        f8(n) == AddrRes(n, n.byte, BitAnd(n.byte, 65280) # n.byte_hi * 256)
    IN  f8(f7(ReadLoHi(m)))

\* the pointer fetch that ends (Indirect,X) and (Indirect),Y: n.byte is the
\* zero-page address as a u16
ReadPointer(m) ==
    LET f1(n) == BusRead(n, n.byte)
        f2(n) == Upd(n, [n EXCEPT !.byte_lo = n.val])
        f3(n) == BusRead(n, n.byte + 1)
        f4(n) == Upd(n, [n EXCEPT !.byte_hi = n.val])
    IN  f4(f3(f2(f1(m))))

addr_idx_indirect(m) ==
    LET f1(n) == BusRead(n, n.pc)
        f2(n) == Upd(n, [n EXCEPT !.byte = AsU8(n.val + n.x)])
        f3(n) == IncPC(n)
        f4(n) == AddrRes(n, BitOr(n.byte_hi * 256, n.byte_lo), FALSE)
    IN  f4(ReadPointer(f3(f2(f1(m)))))

addr_indirect_idx(m) ==
    LET f1(n) == BusRead(n, n.pc)
        f2(n) == Upd(n, [n EXCEPT !.byte = n.val])
        f3(n) == IncPC(n)
        f4(n) == Upd(n, [n EXCEPT !.res = BitOr(n.byte_hi * 256, n.byte_lo) + n.y])
        f5(n) == Chk(n, n.res > 65535)
        \* `cycle` is computed (from byte_lo << 8) and never used
        f6(n) == AddrRes(n, Wrap16(n.res), FALSE)
    IN  f6(f5(f4(ReadPointer(f3(f2(f1(m)))))))

Modes == {"addr_acc", "addr_immediate", "addr_relative", "addr_zero_pg",
          "addr_absolute", "addr_indirect", "addr_zero_pg_x", "addr_zero_pg_y",
          "addr_absolute_x", "addr_absolute_y", "addr_idx_indirect",
          "addr_indirect_idx"}

\* addr_mode(self, bus): the call through the AddrMode function pointer
AddrMode(mode, m) ==
    CASE mode = "addr_acc" -> addr_acc(m)
      [] mode = "addr_immediate" -> addr_immediate(m)
      [] mode = "addr_relative" -> addr_relative(m)
      [] mode = "addr_zero_pg" -> addr_zero_pg(m)
      [] mode = "addr_absolute" -> addr_absolute(m)
      [] mode = "addr_indirect" -> addr_indirect(m)
      [] mode = "addr_zero_pg_x" -> addr_zero_pg_x(m)
      [] mode = "addr_zero_pg_y" -> addr_zero_pg_y(m)
      [] mode = "addr_absolute_x" -> addr_absolute_x(m)
      [] mode = "addr_absolute_y" -> addr_absolute_y(m)
      [] mode = "addr_idx_indirect" -> addr_idx_indirect(m)
      [] mode = "addr_indirect_idx" -> addr_indirect_idx(m)

---------------------------------------------------------------------------
(* Opcodes: each leaves the additional clock cycles it returns in m.ret *)

Bool(b) == IF b THEN 1 ELSE 0

\* opcode_adc without the carry-in: res = A + M
opcode_adc_NoCarryIn(m, mode) ==
    LET f1(n) == BusRead(n, n.addr)
        f2(n) == Upd(n, [n EXCEPT !.byte = n.val])
        f3(n) == Upd(n, [n EXCEPT !.res = n.a + n.byte])
        f4(n) == set_flag(n, Carry, n.res > 255)
        f5(n) == set_flag(n, Zero, BitAnd(n.res, 255) = 0)
        f6(n) == set_flag(n, Overflow,
                          BitAnd(BitAnd(Not16(BitXor(n.a, n.byte)),
                                        BitXor(n.a, n.res)), 128) > 1)
        f7(n) == set_flag(n, Negative, BitAnd(n.res, 128) > 1)
        f8(n) == Upd(n, [n EXCEPT !.a = BitAnd(n.res, 255)])
        f9(n) == Return(n, TRUE, Bool(n.cycle))
    IN  f9(f8(f7(f6(f5(f4(f3(f2(f1(AddrMode(mode, m))))))))))

opcode_adc(m, mode) ==
    LET f1(n) == BusRead(n, n.addr)
        f2(n) == Upd(n, [n EXCEPT !.byte = n.val])
        f3(n) == Upd(n, [n EXCEPT !.res = n.a + n.byte + Bool(get_flag(n, Carry))])
        f4(n) == set_flag(n, Carry, n.res > 255)
        f5(n) == set_flag(n, Zero, BitAnd(n.res, 255) = 0)
        f6(n) == set_flag(n, Overflow,
                          BitAnd(BitAnd(Not16(BitXor(n.a, n.byte)),
                                        BitXor(n.a, n.res)), 128) > 1)
        f7(n) == set_flag(n, Negative, BitAnd(n.res, 128) > 1)
        f8(n) == Upd(n, [n EXCEPT !.a = BitAnd(n.res, 255)])
        f9(n) == Return(n, TRUE, Bool(n.cycle))
    IN  f9(f8(f7(f6(f5(f4(f3(f2(f1(AddrMode(mode, m))))))))))

opcode_and(m, mode) ==
    LET f1(n) == BusRead(n, n.addr)
        f2(n) == Upd(n, [n EXCEPT !.byte = n.val])
        f3(n) == Upd(n, [n EXCEPT !.a = BitAnd(n.a, n.byte)])
        f4(n) == set_flag(n, Zero, n.a = 0)
        f5(n) == set_flag(n, Negative, BitAnd(n.a, 128) > 0)
        f6(n) == Return(n, TRUE, Bool(n.cycle))
    IN  f6(f5(f4(f3(f2(f1(AddrMode(mode, m)))))))

\* opcode_asl with Zero and Negative taken from the byte before the shift
opcode_asl_FlagsBeforeShift(m, mode) ==
    LET f1(n) == IF n.acc_addr
                 THEN Upd(n, [n EXCEPT !.byte = AsU8(n.addr)])
                 ELSE BusRead(n, n.addr)
        f2(n) == IF n.acc_addr THEN n ELSE Upd(n, [n EXCEPT !.byte = n.val])
        f3(n) == set_flag(n, Carry, BitAnd(n.byte, 128) > 0)
        f4(n) == set_flag(n, Zero, n.byte = 0)
        f5(n) == set_flag(n, Negative, BitAnd(n.byte, 128) > 0)
        f6(n) == Upd(n, [n EXCEPT !.byte = AsU8(n.byte * 2)])
        f7(n) == IF n.acc_addr
                 THEN Upd(n, [n EXCEPT !.a = n.byte])
                 ELSE BusWrite(n, n.addr, n.byte)
        f8(n) == Upd(n, [n EXCEPT !.acc_addr = FALSE])
        f9(n) == Return(n, TRUE, 0)
    IN  f9(f8(f7(f6(f5(f4(f3(f2(f1(AddrMode(mode, m))))))))))

opcode_asl(m, mode) ==
    LET f1(n) == IF n.acc_addr
                 THEN Upd(n, [n EXCEPT !.byte = AsU8(n.addr)])
                 ELSE BusRead(n, n.addr)
        f2(n) == IF n.acc_addr THEN n ELSE Upd(n, [n EXCEPT !.byte = n.val])
        f3(n) == set_flag(n, Carry, BitAnd(n.byte, 128) > 0)
        f4(n) == Upd(n, [n EXCEPT !.byte = AsU8(n.byte * 2)])
        f5(n) == set_flag(n, Zero, n.byte = 0)
        f6(n) == set_flag(n, Negative, BitAnd(n.byte, 128) > 0)
        f7(n) == IF n.acc_addr
                 THEN Upd(n, [n EXCEPT !.a = n.byte])
                 ELSE BusWrite(n, n.addr, n.byte)
        f8(n) == Upd(n, [n EXCEPT !.acc_addr = FALSE])
        f9(n) == Return(n, TRUE, 0)
    IN  f9(f8(f7(f6(f5(f4(f3(f2(f1(AddrMode(mode, m))))))))))

\* the taken path of BCC, BCS and BEQ: the pages of the old and the new pc
BranchOldPc(m) ==
    LET f1(n) == Upd(n, [n EXCEPT !.old_pc = n.pc])
        f2(n) == Chk(n, n.pc + n.addr > 65535)
        f3(n) == Upd(n, [n EXCEPT !.pc = Wrap16(n.pc + n.addr)])
        f4(n) == Return(n, TRUE,
                        IF BitAnd(n.pc, 65280) # BitAnd(n.old_pc, 65280)
                        THEN 2 ELSE 1)
    IN  f4(f3(f2(f1(m))))

\* the taken path of BMI and BNE: the cycle flag of the AddrRes
BranchCycle(m) ==
    LET f1(n) == Chk(n, n.pc + n.addr > 65535)
        f2(n) == Upd(n, [n EXCEPT !.pc = Wrap16(n.pc + n.addr)])
        f3(n) == Return(n, TRUE, IF n.cycle THEN 2 ELSE 1)
    IN  f3(f2(f1(m)))

opcode_bcc(m, mode) ==
    LET f1(n) == IF get_flag(n, Carry) THEN Return(n, TRUE, 0)
                 ELSE BranchOldPc(n)
    IN  f1(AddrMode(mode, m))

opcode_bcs(m, mode) ==
    LET f1(n) == IF ~get_flag(n, Carry) THEN Return(n, TRUE, 0)
                 ELSE BranchOldPc(n)
    IN  f1(AddrMode(mode, m))

opcode_beq(m, mode) ==
    LET f1(n) == IF ~get_flag(n, Zero) THEN Return(n, TRUE, 0)
                 ELSE BranchOldPc(n)
    IN  f1(AddrMode(mode, m))

opcode_bit(m, mode) ==
    LET f1(n) == BusRead(n, n.addr)
        f2(n) == Upd(n, [n EXCEPT !.byte = n.val])
        f3(n) == set_flag(n, Zero, BitAnd(n.a, n.byte) = 0)
        f4(n) == set_flag(n, Negative, BitAnd(n.byte, 128) = 0)
        f5(n) == set_flag(n, Overflow, BitAnd(n.byte, 64) = 0)
        f6(n) == Return(n, TRUE, 0)
    IN  f6(f5(f4(f3(f2(f1(AddrMode(mode, m)))))))

opcode_bmi(m, mode) ==
    LET f1(n) == IF get_flag(n, Negative) THEN BranchCycle(n)
                 ELSE Return(n, TRUE, 0)
    IN  f1(AddrMode(mode, m))

opcode_bne(m, mode) ==
    LET f1(n) == IF ~get_flag(n, Zero) THEN BranchCycle(n)
                 ELSE Return(n, TRUE, 0)
    IN  f1(AddrMode(mode, m))

---------------------------------------------------------------------------
(* The state machine *)

\* the machine record of the current state, before a call
Mach ==
    [a |-> a, x |-> x, y |-> y, s |-> s, pc |-> pc, sp |-> sp, clk |-> clk,
     acc_addr |-> acc_addr, ram |-> ram, oc |-> overflow_checks,
     panic |-> FALSE, val |-> 0, addr |-> 0, cycle |-> FALSE,
     byte |-> 0, byte_lo |-> 0, byte_hi |-> 0, res |-> 0, old_pc |-> 0,
     ok |-> TRUE, ret |-> 0, trace |-> <<>>]

NoCall == [op |-> "none", mode |-> "none", arg |-> 0, at |-> 0]

StackOps == {"stack_push", "stack_pop"}

\* what is remembered of the call before the last one: a stack call, with
\* its argument and the stack pointer it started from, or that it was none
NoPrev == [op |-> "other", arg |-> 0, sp |-> 0]

\* one call made by the driver: the state becomes what the call left
Commit(m, op, mode, arg, at) ==
    /\ a' = m.a
    /\ x' = m.x
    /\ y' = m.y
    /\ s' = m.s
    /\ pc' = m.pc
    /\ sp' = m.sp
    /\ clk' = m.clk
    /\ acc_addr' = m.acc_addr
    /\ ram' = m.ram
    /\ panicked' = m.panic
    /\ fuel' = fuel - 1
    /\ call' = [op |-> op, mode |-> mode, arg |-> arg, at |-> at]
    /\ pre' = Mach
    /\ prev' = IF call.op \in StackOps
               THEN [op |-> call.op, arg |-> call.arg, sp |-> pre.sp]
               ELSE NoPrev
    /\ out' = [ok |-> m.ok, ret |-> m.ret, addr |-> m.addr, cycle |-> m.cycle,
               trace |-> m.trace]
    /\ UNCHANGED overflow_checks

\* the driver makes a call only while the thread is alive
Live == fuel > 0 /\ ~panicked

\* bytes pushed, the cells and bytes written through Bus::write, and the
\* cells read through Bus::read
PushBytes == {17, 255}
WriteAddrs == {0, 1, 511, 65535}
ReadAddrs == {0, 65535}
WriteBytes == {5, 251}

StackPush ==
    /\ Live
    /\ \E byte \in PushBytes :
          Commit(stack_push(Mach, byte), "stack_push", "none", byte, 0)

StackPop ==
    /\ Live
    /\ Commit(stack_pop(Mach), "stack_pop", "none", 0, 0)

ReadOpcode ==
    /\ Live
    /\ Commit(read_opcode(Mach), "read_opcode", "none", 0, 0)

Tick ==
    /\ Live
    /\ Commit(tick(Mach), "tick", "none", 0, 0)

AddrImplied ==
    /\ Live
    /\ Commit(addr_implied(Mach), "addr_implied", "none", 0, 0)

\* an addressing-mode function called on its own
AddrModeCall ==
    /\ Live
    /\ \E mode \in Modes : Commit(AddrMode(mode, Mach), "addr_mode", mode, 0, 0)

OpcodeAdc ==
    /\ Live
    /\ \E mode \in Modes : Commit(opcode_adc(Mach, mode), "opcode_adc", mode, 0, 0)

OpcodeAnd ==
    /\ Live
    /\ \E mode \in Modes : Commit(opcode_and(Mach, mode), "opcode_and", mode, 0, 0)

OpcodeAsl ==
    /\ Live
    /\ \E mode \in Modes : Commit(opcode_asl(Mach, mode), "opcode_asl", mode, 0, 0)

OpcodeBcc ==
    /\ Live
    /\ \E mode \in Modes : Commit(opcode_bcc(Mach, mode), "opcode_bcc", mode, 0, 0)

OpcodeBcs ==
    /\ Live
    /\ \E mode \in Modes : Commit(opcode_bcs(Mach, mode), "opcode_bcs", mode, 0, 0)

OpcodeBeq ==
    /\ Live
    /\ \E mode \in Modes : Commit(opcode_beq(Mach, mode), "opcode_beq", mode, 0, 0)

OpcodeBit ==
    /\ Live
    /\ \E mode \in Modes : Commit(opcode_bit(Mach, mode), "opcode_bit", mode, 0, 0)

OpcodeBmi ==
    /\ Live
    /\ \E mode \in Modes : Commit(opcode_bmi(Mach, mode), "opcode_bmi", mode, 0, 0)

OpcodeBne ==
    /\ Live
    /\ \E mode \in Modes : Commit(opcode_bne(Mach, mode), "opcode_bne", mode, 0, 0)

BusReadCall ==
    /\ Live
    /\ \E addr \in ReadAddrs :
          LET m == BusRead(Mach, addr)
          IN  Commit(Return(m, TRUE, m.val), "bus_read", "none", 0, addr)

BusWriteCall ==
    /\ Live
    /\ \E addr \in WriteAddrs, byte \in WriteBytes :
          Commit(Return(BusWrite(Mach, addr, byte), TRUE, 0),
                 "bus_write", "none", byte, addr)

Next ==
    \/ StackPush
    \/ StackPop
    \/ ReadOpcode
    \/ Tick
    \/ AddrImplied
    \/ AddrModeCall
    \/ OpcodeAdc
    \/ OpcodeAnd
    \/ OpcodeAsl
    \/ OpcodeBcc
    \/ OpcodeBcs
    \/ OpcodeBeq
    \/ OpcodeBit
    \/ OpcodeBmi
    \/ OpcodeBne
    \/ BusReadCall
    \/ BusWriteCall

---------------------------------------------------------------------------
(* Initial states *)

\* the state with the given registers and memory, before any call
InitWith(a0, x0, y0, s0, pc0, sp0, ram0, oc0, fuel0) ==
    /\ a = a0
    /\ x = x0
    /\ y = y0
    /\ s = s0
    /\ pc = pc0
    /\ sp = sp0
    /\ clk = 0
    /\ acc_addr = FALSE
    /\ ram = ram0
    /\ overflow_checks = oc0
    /\ panicked = FALSE
    /\ fuel = fuel0
    /\ call = NoCall
    /\ prev = NoPrev
    /\ pre = [a |-> a0, x |-> x0, y |-> y0, s |-> s0, pc |-> pc0, sp |-> sp0,
              clk |-> 0, acc_addr |-> FALSE, ram |-> ram0, oc |-> oc0,
              panic |-> FALSE, val |-> 0, addr |-> 0, cycle |-> FALSE,
              byte |-> 0, byte_lo |-> 0, byte_hi |-> 0, res |-> 0, old_pc |-> 0,
              ok |-> TRUE, ret |-> 0, trace |-> <<>>]
    /\ out = [ok |-> TRUE, ret |-> 0, addr |-> 0, cycle |-> FALSE, trace |-> <<>>]

\* MOS6502::new() and Bus::new(), followed by n pushes of a zero byte:
\* n = 0 is the state right after construction, n = 256 is the full stack
StackLevels == {-1, 255}

InitNew ==
    \E sp0 \in StackLevels, oc0 \in BOOLEAN :
        InitWith(0, 0, 0, 0, 0, sp0, EmptyRam, oc0, MaxSteps)

\* memory loaded through Bus::write: pointers and their targets ...
DataTable ==
    (0 :> 48) @@ (16 :> 255) @@ (17 :> 32) @@ (255 :> 240) @@ (256 :> 64) @@
    (4096 :> 160) @@ (4097 :> 33) @@ (4351 :> 128) @@ (4352 :> 80) @@
    (65296 :> 52) @@ (65297 :> 18)

\* ... and the operand bytes b0, b1 after the opcode, where pc points
Loaded(pc0, b0, b1) ==
    LET r1 == RamPut(DataTable, pc0, b0)
    IN  IF pc0 + 1 < RamLen THEN RamPut(r1, pc0 + 1, b1) ELSE r1

RegA == {0, 80, 255}
RegXY == {<<0, 0>>, <<1, 255>>, <<255, 1>>}
RegS == {0, 1, 255}
RegPC == {32769, 33022, 65534}
Oper0 == {0, 5, 16, 80, 251, 255}
Oper1 == {16, 255}

\* one call on a machine whose registers and memory a test has set up
InitLoaded ==
    \E a0 \in RegA, xy \in RegXY, s0 \in RegS, pc0 \in RegPC,
       b0 \in Oper0, b1 \in Oper1, oc0 \in BOOLEAN :
        InitWith(a0, xy[1], xy[2], s0, pc0, -1, Loaded(pc0, b0, b1), oc0, 1)

Init == InitNew \/ InitLoaded

Spec == Init /\ [][Next]_vars

---------------------------------------------------------------------------
(* Vocabulary of the properties *)

\* the stack pointer as the 8-bit register of the hardware
Sp8(v) == v % 256

\* bit k of v
Bit(v, k) == (v \div (2 ^ k)) % 2

\* the last call was op and it returned
Returned(op) == call.op = op /\ ~panicked

---------------------------------------------------------------------------
(* Stack *)

\* C1: stack_push and stack_pop never report an error: every call of either
\* returns Ok, whatever the stack pointer is.
C1_StackNeverFails ==
    (call.op \in StackOps) => (~panicked /\ out.ok)

\* C2: the stack is descending: stack_push(b) writes b at $0100 + SP (SP as
\* before the call) and leaves SP - 1 mod 256; stack_pop() leaves SP + 1 mod
\* 256 and returns the byte at $0100 + the new SP.
C2_DescendingStack ==
    /\ Returned("stack_push") =>
          /\ RamAt(ram, 256 + Sp8(pre.sp)) = call.arg
          /\ Sp8(sp) = (Sp8(pre.sp) + 255) % 256
    /\ Returned("stack_pop") =>
          /\ Sp8(sp) = (Sp8(pre.sp) + 1) % 256
          /\ out.ret = RamAt(pre.ram, 256 + Sp8(sp))

\* C3: a stack_push(b) immediately followed by stack_pop() returns b and
\* leaves SP as it was before the push.
C3_PushPopRoundTrip ==
    (call.op = "stack_pop" /\ prev.op = "stack_push") =>
        /\ ~panicked
        /\ out.ok
        /\ out.ret = prev.arg
        /\ sp = prev.sp

---------------------------------------------------------------------------
(* ADC *)

\* the byte the last opcode took as its operand: the one at the effective
\* address its addressing mode returned
OperandByte == RamAt(pre.ram, out.addr)

\* C4: ADC computes result = A + M + C; Carry iff result > 0xFF, Overflow iff
\* (A_old ^ result) & (M ^ result) & 0x80 is non-zero, A the low 8 bits of
\* result, Zero iff the new A is 0, Negative bit 7 of the new A.
C4_AdcBinaryAdd ==
    Returned("opcode_adc") =>
        LET result == pre.a + OperandByte + Bit(pre.s, 0)
        IN  /\ Bit(s, 0) = Bool(result > 255)
            /\ Bit(s, 6) = Bool(BitAnd(BitAnd(BitXor(pre.a, result),
                                              BitXor(OperandByte, result)),
                                       128) # 0)
            /\ a = result % 256
            /\ Bit(s, 1) = Bool(a = 0)
            /\ Bit(s, 7) = Bit(a, 7)

\* ADC #$50 with A = $50 and P = $00 has returned: A = $A0, V = 1, N = 1
C4_Witness ==
    /\ Returned("opcode_adc")
    /\ call.mode = "addr_immediate"
    /\ pre.a = 80 /\ pre.s = 0 /\ OperandByte = 80
    /\ a = 160 /\ s = 192

---------------------------------------------------------------------------
(* Branches *)

BranchOps == {"opcode_bcc", "opcode_bcs", "opcode_beq", "opcode_bne", "opcode_bmi"}

\* the last call was a branch opcode executed with relative addressing
Branched == call.op \in BranchOps /\ call.mode = "addr_relative"

\* the polarity each branch tests, on the status byte before the call
BranchTaken ==
    CASE call.op = "opcode_bcc" -> Bit(pre.s, 0) = 0
      [] call.op = "opcode_bcs" -> Bit(pre.s, 0) = 1
      [] call.op = "opcode_beq" -> Bit(pre.s, 1) = 1
      [] call.op = "opcode_bne" -> Bit(pre.s, 1) = 0
      [] call.op = "opcode_bmi" -> Bit(pre.s, 7) = 1
      [] OTHER -> FALSE

\* the address of the instruction after the branch: pc is at the operand
\* byte when the opcode function is entered
BranchNext == (pre.pc + 1) % 65536

\* the operand byte as a signed offset
BranchOffset ==
    LET b == RamAt(pre.ram, pre.pc) IN IF b >= 128 THEN b - 256 ELSE b

BranchTarget == (BranchNext + BranchOffset) % 65536

\* C5: a branch executed with relative addressing is taken exactly when the
\* tested flag has the required polarity; taken, PC becomes the address after
\* the branch plus the sign-extended offset mod 2^16, for negative offsets as
\* for positive ones; not taken, PC is the address after the branch.
C5_BranchTarget ==
    Branched =>
        /\ ~panicked
        /\ pc = IF BranchTaken THEN BranchTarget ELSE BranchNext

\* C6: a branch returns 0 extra cycles when not taken, 1 when taken to the
\* page of the instruction after it, 2 when taken to another page, forward
\* or backward, and the five branch opcodes agree.
C6_BranchPenalty ==
    (Branched /\ ~panicked) =>
        out.ret = IF ~BranchTaken THEN 0
                  ELSE IF BranchTarget \div 256 = BranchNext \div 256 THEN 1
                  ELSE 2

---------------------------------------------------------------------------
(* Addressing modes *)

Opcodes == {"opcode_adc", "opcode_and", "opcode_asl", "opcode_bit"} \cup BranchOps

\* the last call was an opcode that decoded its operand with `mode` and
\* returned
Decoded(mode) == call.op \in Opcodes /\ call.mode = mode /\ ~panicked

\* the operand bytes after the opcode
Oper(k) == RamAt(pre.ram, pre.pc + k)

\* the little-endian word at p and q
Word(p, q) == RamAt(pre.ram, p) + 256 * RamAt(pre.ram, q)

\* C7: Indirect: with lo at PC and hi at PC+1 and P = hi:lo, the decoder
\* returns the word whose low byte is mem[P] and whose high byte is mem[P+1]
\* when lo # $FF, and mem[P AND $FF00] when lo = $FF.
C7_IndirectPageWrap ==
    Decoded("addr_indirect") =>
        LET P == Oper(0) + 256 * Oper(1)
        IN  out.addr = Word(P, IF Oper(0) # 255 THEN P + 1 ELSE (P \div 256) * 256)

\* the base address an indexed mode adds its index to, and the index
IndexedModes == {"addr_absolute_x", "addr_absolute_y", "addr_indirect_idx"}

IndexBase ==
    IF call.mode = "addr_indirect_idx"
    THEN Word(Oper(0), (Oper(0) + 1) % 256)
    ELSE Oper(0) + 256 * Oper(1)

IndexReg == IF call.mode = "addr_absolute_x" THEN pre.x ELSE pre.y

PageCrossed ==
    /\ call.mode \in IndexedModes
    /\ ((IndexBase + IndexReg) % 65536) \div 256 # IndexBase \div 256

\* C8: the page-crossed flag of Absolute,X, Absolute,Y and (Indirect),Y is
\* true exactly when base + index has another high byte than base, it is
\* false for every other mode, and ADC and AND return 1 extra cycle exactly
\* when it is true.
C8_PageCrossPenalty ==
    (call.op \in Opcodes /\ ~panicked) =>
        /\ out.cycle = PageCrossed
        /\ call.op \in {"opcode_adc", "opcode_and"} => out.ret = Bool(out.cycle)

\* the zero-page address the pointer of (Indirect,X) and (Indirect),Y is at
ZpPointer ==
    IF call.mode = "addr_idx_indirect" THEN (Oper(0) + pre.x) % 256 ELSE Oper(0)

\* C9: in (Indirect,X) and (Indirect),Y the pointer's low byte is read from
\* zp and its high byte from (zp + 1) mod 256: no address outside the zero
\* page is read for the pointer.
C9_ZeroPagePointerWrap ==
    (Decoded("addr_idx_indirect") \/ Decoded("addr_indirect_idx")) =>
        /\ Len(out.trace) >= 3
        /\ out.trace[2] = <<"r", ZpPointer>>
        /\ out.trace[3] = <<"r", (ZpPointer + 1) % 256>>

---------------------------------------------------------------------------
(* Flags after the ALU opcodes *)

\* the last bus access of the last call was a write
WroteBack ==
    /\ Len(out.trace) > 0
    /\ out.trace[Len(out.trace)][1] = "w"

\* the 8-bit value the last ALU opcode stored: ASL stores to the cell it
\* wrote, or to A when it wrote none; ADC and AND store to A
Stored ==
    IF call.op = "opcode_asl" /\ WroteBack
    THEN RamAt(ram, out.trace[Len(out.trace)][2])
    ELSE a

\* C10: after ADC, AND and ASL, Zero is set iff the stored 8-bit value is 0
\* and Negative equals bit 7 of the stored value.
C10_ZeroNegativeOfStored ==
    (Returned("opcode_adc") \/ Returned("opcode_and") \/ Returned("opcode_asl")) =>
        /\ Bit(s, 1) = Bool(Stored = 0)
        /\ Bit(s, 7) = Bit(Stored, 7)

\* ASL of a memory byte with bit 6 set has returned with N clear before:
\* the cell holds a negative value, N is set and Z is clear
C10_Witness ==
    /\ Returned("opcode_asl")
    /\ WroteBack
    /\ Stored >= 128
    /\ Bit(pre.s, 7) = 0
    /\ Bit(s, 7) = 1 /\ Bit(s, 1) = 0

---------------------------------------------------------------------------
(* ASL and BIT *)

\* the bus writes of the last call
Writes == {i \in 1..Len(out.trace) : out.trace[i][1] = "w"}

\* C11: ASL shifts its operand left by one with zero shifted in: Carry is
\* the operand's old bit 7 and the result is operand * 2 mod 256; in
\* accumulator mode the operand is A, the result goes to A and nothing is
\* written to the bus; in a memory mode the operand is the byte at the
\* effective address, the result is written back there and A is unchanged.
C11_AslShiftsOperand ==
    Returned("opcode_asl") =>
        IF call.mode = "addr_acc"
        THEN /\ Bit(s, 0) = Bit(pre.a, 7)
             /\ a = (pre.a * 2) % 256
             /\ Writes = {}
        ELSE /\ Bit(s, 0) = Bit(OperandByte, 7)
             /\ WroteBack
             /\ out.trace[Len(out.trace)][2] = out.addr
             /\ RamAt(ram, out.addr) = (OperandByte * 2) % 256
             /\ a = pre.a

\* C12: BIT tests memory against A and saves nothing: Zero iff (A & M) = 0,
\* Negative is bit 7 of M, Overflow is bit 6 of M; A, X, Y, Carry and memory
\* are unchanged.
C12_BitTest ==
    Returned("opcode_bit") =>
        /\ Bit(s, 1) = Bool(BitAnd(pre.a, OperandByte) = 0)
        /\ Bit(s, 7) = Bit(OperandByte, 7)
        /\ Bit(s, 6) = Bit(OperandByte, 6)
        /\ a = pre.a /\ x = pre.x /\ y = pre.y
        /\ Bit(s, 0) = Bit(pre.s, 0)
        /\ ram = pre.ram

---------------------------------------------------------------------------
(* Decoders and frame conditions *)

\* the last call decoded with `mode` (on its own or inside an opcode) and
\* returned
Decoder(mode) == call.mode = mode /\ ~panicked

\* C13: Zero Page,X and Zero Page,Y wrap inside the zero page: the effective
\* address is (oper + X) mod 256, resp. (oper + Y) mod 256, so it is in
\* $0000..$00FF, and the page-crossed flag is false.
C13_ZeroPageIndexedWraps ==
    /\ Decoder("addr_zero_pg_x") =>
          /\ out.addr = (Oper(0) + pre.x) % 256
          /\ out.addr \in 0..255
          /\ ~out.cycle
    /\ Decoder("addr_zero_pg_y") =>
          /\ out.addr = (Oper(0) + pre.y) % 256
          /\ out.addr \in 0..255
          /\ ~out.cycle

\* Zero Page,X with oper = $FF and X = 1 has returned address $0000
C13_Witness ==
    /\ Decoder("addr_zero_pg_x")
    /\ Oper(0) = 255 /\ pre.x = 1
    /\ out.addr = 0

\* the bit positions of enum Flags in the status byte
FlagBits == {0, 1, 2, 3, 4, 6, 7}

SameFlag(s1, s2, flag) == BitAnd(s1, flag) = BitAnd(s2, flag)

\* C14: set_flag changes only the named bit (applied to every initial status
\* byte and to every one ADC or BIT leaves); AND leaves Carry, Overflow,
\* Interrupt and Decimal as they were, ASL leaves Overflow, ADC leaves
\* Interrupt and Decimal; the branch opcodes change no status bit and none
\* of A, X, Y.
C14_FlagFrame ==
    /\ call.op \in {"none", "opcode_adc", "opcode_bit"} =>
          \A k \in FlagBits, val \in BOOLEAN :
              LET r == set_flag([s |-> s, panic |-> FALSE], 2 ^ k, val).s
              IN  /\ Bit(r, k) = Bool(val)
                  /\ r - Bit(r, k) * 2 ^ k = s - Bit(s, k) * 2 ^ k
    /\ Returned("opcode_and") =>
          \A flag \in {Carry, Overflow, Interrupt, Decimal} : SameFlag(s, pre.s, flag)
    /\ Returned("opcode_asl") => SameFlag(s, pre.s, Overflow)
    /\ Returned("opcode_adc") =>
          \A flag \in {Interrupt, Decimal} : SameFlag(s, pre.s, flag)
    /\ (call.op \in BranchOps /\ ~panicked) =>
          s = pre.s /\ a = pre.a /\ x = pre.x /\ y = pre.y

\* AND has returned with Zero cleared and Carry, Overflow, Interrupt and
\* Decimal still set
C14_Witness ==
    /\ Returned("opcode_and")
    /\ pre.s = 255
    /\ Bit(s, 1) = 0
    /\ BitAnd(s, 77) = 77

\* the operand bytes of each addressing mode
OperandBytes(mode) ==
    CASE mode = "addr_acc" -> 0
      [] mode \in {"addr_absolute", "addr_absolute_x", "addr_absolute_y",
                   "addr_indirect"} -> 2
      [] OTHER -> 1

\* C15: each decoder advances PC by exactly its operand byte count (0 for
\* Accumulator, 2 for Absolute, Absolute,X, Absolute,Y and Indirect, 1 for
\* the others); Immediate returns the PC it was entered with; no decoder
\* writes to the bus or changes A, X, Y, SP or the status byte.
C15_DecoderAdvancesPc ==
    Returned("addr_mode") =>
        /\ pc = (pre.pc + OperandBytes(call.mode)) % 65536
        /\ call.mode = "addr_immediate" => out.addr = pre.pc
        /\ Writes = {}
        /\ ram = pre.ram
        /\ a = pre.a /\ x = pre.x /\ y = pre.y /\ sp = pre.sp /\ s = pre.s

\* Immediate, called on its own at pc = $8001, has returned $8001 and left
\* pc = $8002
C15_Witness ==
    /\ Returned("addr_mode")
    /\ call.mode = "addr_immediate"
    /\ pre.pc = 32769 /\ out.addr = 32769 /\ pc = 32770

---------------------------------------------------------------------------
(* Bus, stack window, accumulator latch *)

\* C16: the bus serves every address in $0000..$FFFF: read and write
\* complete without fault, a write(a, b) leaves b at a (what a read of a
\* then returns) and every other cell as it was, a read returns the byte
\* at its address.
C16_BusServesAllAddresses ==
    /\ call.op = "bus_write" =>
          /\ ~panicked
          /\ RamAt(ram, call.at) = call.arg
          /\ \A c \in ((DOMAIN ram) \cup (DOMAIN pre.ram)) \ {call.at} :
                RamAt(ram, c) = RamAt(pre.ram, c)
    /\ call.op = "bus_read" =>
          /\ ~panicked
          /\ out.ret = RamAt(pre.ram, call.at)
          /\ ram = pre.ram

\* C17: the stack pointer stays between -1 and 255, and every bus access of
\* a push or a pull is to an address in $0100..$01FF.
C17_StackWindow ==
    /\ sp \in -1..255
    /\ call.op \in StackOps =>
          \A i \in 1..Len(out.trace) : out.trace[i][2] \in 256..511

\* a push onto the last free cell has returned: it wrote $01FF and the
\* stack is full
C17_Witness ==
    /\ Returned("stack_push")
    /\ pre.sp = 254 /\ sp = 255
    /\ out.trace = << <<"w", 511>> >>

\* C18: a stack call that returns an error changes nothing: SP, the
\* registers, the status byte and memory are as before the call, and the bus
\* was neither read nor written.
C18_FailedStackOpChangesNothing ==
    (call.op \in StackOps /\ ~out.ok) =>
        /\ sp = pre.sp
        /\ a = pre.a /\ x = pre.x /\ y = pre.y /\ s = pre.s /\ pc = pre.pc
        /\ ram = pre.ram
        /\ out.trace = <<>>

\* stack_pop has returned the underflow error
C18_Witness ==
    /\ call.op = "stack_pop"
    /\ ~out.ok
    /\ pre.sp = -1 /\ sp = -1

\* C19: the accumulator latch does not leak: after every executed
\* instruction, in whatever addressing mode, acc_addr is false, so an ASL
\* in a memory mode reads its operand from memory, writes it back and
\* leaves A alone.
C19_LatchDoesNotLeak ==
    /\ (call.op \in Opcodes /\ ~panicked) => ~acc_addr
    /\ (Returned("opcode_asl") /\ call.mode # "addr_acc") =>
          /\ \E i \in 1..Len(out.trace) : out.trace[i] = <<"r", out.addr>>
          /\ WroteBack
          /\ a = pre.a

====
